---- MODULE Spec2Model ----
(***************************************************************************)
(* import_fits(filename, m) of fits/import_fits.py: the fit-file importer. *)
(* Text is a sequence of one-character strings.  One behaviour is one call *)
(* of import_fits; the inputs (the file and the symbol source m) are drawn *)
(* in Init.                                                                *)
(***************************************************************************)
EXTENDS Integers, Sequences, FiniteSets, TLC

\* Longest file content, in characters.
MaxLen == 5

\* The characters a file is made of: comment mark, separator, blank,
\* end of line, a digit, a letter and the underscore.
Alphabet == {"#", "=", " ", "\n", "1", "m", "_"}

\* What str.strip() removes.
Whitespace == {" ", "\n"}

Digits == {"1"}

\* Characters of identifiers and numbers.
IdentChars == {"1", "m", "_"}

Contents == UNION {[1..n -> Alphabet] : n \in 0..MaxLen}

\* ------------------------------------------------------------ str methods

\* s.find(c): 0-based index of the first c, -1 when there is none.
Find(s, c) ==
  IF \E i \in 1..Len(s) : s[i] = c
  THEN (CHOOSE i \in 1..Len(s) : s[i] = c /\ \A j \in 1..(i-1) : s[j] # c) - 1
  ELSE -1

\* A slice index as Python normalises it: negative counts from the end,
\* and the result is clamped to 0..n.
Clamp(i, n) ==
  IF i < 0 THEN (IF i + n < 0 THEN 0 ELSE i + n)
  ELSE IF i > n THEN n ELSE i

\* s[start:stop]
PySlice(s, start, stop) ==
  LET a == Clamp(start, Len(s))
      b == Clamp(stop, Len(s))
  IN IF a < b THEN SubSeq(s, a + 1, b) ELSE <<>>

RECURSIVE LStrip(_)
LStrip(s) ==
  IF Len(s) > 0 /\ s[1] \in Whitespace THEN LStrip(Tail(s)) ELSE s

RECURSIVE RStrip(_)
RStrip(s) ==
  IF Len(s) > 0 /\ s[Len(s)] \in Whitespace
  THEN RStrip(SubSeq(s, 1, Len(s) - 1)) ELSE s

\* s.strip()
Strip(s) == LStrip(RStrip(s))

\* A bug for comparison: the blanks before the '#' are passed first.
StartsWithHash_AfterBlanks(s) == Len(LStrip(s)) > 0 /\ LStrip(s)[1] = "#"

\* line.startswith('#')
StartsWithHash(s) == Len(s) > 0 /\ s[1] = "#"

\* fitFile.readlines(): the content cut after every end of line; every line
\* keeps its terminator, the last one has none when the file does not end
\* with one.
RECURSIVE Readlines(_)
Readlines(c) ==
  IF Len(c) = 0 THEN <<>>
  ELSE LET p == Find(c, "\n")
       IN IF p = -1 THEN <<c>>
          ELSE <<SubSeq(c, 1, p + 1)>> \o Readlines(SubSeq(c, p + 2, Len(c)))

\* ------------------------------------------------------------ values

IntVal(n)  == [kind |-> "int",    num |-> n, name |-> <<>>]
BoolVal(b) == [kind |-> "bool",   num |-> IF b THEN 1 ELSE 0, name |-> <<>>]
NoneVal    == [kind |-> "None",   num |-> 0, name |-> <<>>]
ObjVal(nm) == [kind |-> "object", num |-> 0, name |-> nm]

Ok(v)      == [ok |-> TRUE,  value |-> v,       exc |-> "none"]
Raise(e)   == [ok |-> FALSE, value |-> NoneVal, exc |-> e]

\* ------------------------------------------------------------ names

NameM          == <<"m">>
NameUnderscore == <<"_">>
NameBuiltins   == <<"_","_","b","u","i","l","t","i","n","s","_","_">>

\* The local variables of import_fits, visible to eval when its globals
\* argument is None.
LocalNames ==
  { <<"f","i","l","e","n","a","m","e">>, NameM,
    <<"g","l","o","b","a","l","D","i","c","t">>, <<"f","i","t","s">>,
    <<"f","i","t","F","i","l","e">>, <<"f","i","t","L","i","n","e","s">>,
    <<"l","i","n","e">>, <<"s","p","l","i","t">>, <<"k","e","y">>,
    <<"v","a","l">> }

\* The symbol source passed as m when it is not None: a namespace with one
\* public attribute, m, and one non-public attribute, _.
ModuleDir == {NameM, NameUnderscore}

\* dir(m)
Dir(src) == IF src = "module" THEN ModuleDir ELSE {}

\* getattr(m, d)
GetAttr(src, d) == ObjVal(d)

\* The dictionary with no entry.
EmptyDict == [d \in {} |-> NoneVal]

\* ------------------------------------------------------------ eval

\* The evaluation environment: globalDict of import_fits. isNone is TRUE when
\* globalDict is None, and eval then resolves names in the frame it is
\* called from: the locals and globals of import_fits.
EnvNone    == [isNone |-> TRUE,  d |-> EmptyDict]
EnvDict(f) == [isNone |-> FALSE, d |-> f]

\* Name resolution of one identifier.
Resolve(nm, env) ==
  IF env.isNone
  THEN IF nm = NameM THEN Ok(NoneVal)
       ELSE IF nm \in LocalNames THEN Ok(ObjVal(nm))
       ELSE Raise("NameError")
  ELSE IF nm \in DOMAIN env.d THEN Ok(env.d[nm])
       ELSE Raise("NameError")

\* The text of an expression up to its comment.
StripComment(s) ==
  LET p == Find(s, "#") IN IF p = -1 THEN s ELSE SubSeq(s, 1, p)

\* The longest prefix made of identifier characters.
RECURSIVE Run(_)
Run(s) ==
  IF Len(s) > 0 /\ s[1] \in IdentChars THEN <<s[1]>> \o Run(Tail(s)) ELSE <<>>

\* A decimal literal: digits, single underscores only between digits.
IsDecimal(r) ==
  /\ Len(r) > 0
  /\ r[1] \in Digits
  /\ r[Len(r)] \in Digits
  /\ \A i \in 1..Len(r) : r[i] \in Digits \cup {"_"}
  /\ \A i \in 1..(Len(r) - 1) : ~(r[i] = "_" /\ r[i + 1] = "_")

RECURSIVE DecimalValue(_)
DecimalValue(r) ==
  IF Len(r) = 0 THEN 0
  ELSE LET rest == DecimalValue(SubSeq(r, 1, Len(r) - 1))
       IN IF r[Len(r)] = "_" THEN rest ELSE 10 * rest + 1

Tok(t, x) == [t |-> t, text |-> x]

\* The token sequence of an expression: numbers, names, the operator ==,
\* and "bad" for what is no token of an expression.
RECURSIVE Tokenize(_)
Tokenize(s) ==
  IF Len(s) = 0 THEN <<>>
  ELSE IF s[1] = " " THEN Tokenize(Tail(s))
  ELSE IF s[1] = "="
       THEN IF Len(s) >= 2 /\ s[2] = "="
            THEN <<Tok("eq", <<"=", "=">>)>> \o Tokenize(SubSeq(s, 3, Len(s)))
            ELSE <<Tok("bad", <<"=">>)>> \o Tokenize(Tail(s))
  ELSE IF s[1] \in IdentChars
       THEN LET r == Run(s)
                t == IF r[1] \in Digits
                     THEN (IF IsDecimal(r) THEN "num" ELSE "bad")
                     ELSE "name"
            IN <<Tok(t, r)>> \o Tokenize(SubSeq(s, Len(r) + 1, Len(s)))
  ELSE <<Tok("bad", <<s[1]>>)>> \o Tokenize(Tail(s))

\* The grammar: operand (== operand)*.
WellFormedExpr(ts) ==
  /\ Len(ts) % 2 = 1
  /\ \A i \in 1..Len(ts) :
       IF i % 2 = 1 THEN ts[i].t \in {"num", "name"} ELSE ts[i].t = "eq"

\* The value of one operand.
Operand(tok, env) ==
  IF tok.t = "num" THEN Ok(IntVal(DecimalValue(tok.text)))
  ELSE Resolve(tok.text, env)

\* A chain of comparisons a == b == c, evaluated left to right; it stops
\* at the first comparison that is false.
RECURSIVE Chain(_, _, _)
Chain(ts, left, env) ==
  IF Len(ts) = 0 THEN Ok(BoolVal(TRUE))
  ELSE LET r == Operand(ts[2], env)
       IN IF ~r.ok THEN r
          ELSE IF r.value # left THEN Ok(BoolVal(FALSE))
          ELSE Chain(SubSeq(ts, 3, Len(ts)), r.value, env)

\* eval(val, globalDict): the expression is compiled first (SyntaxError),
\* then evaluated (NameError for a name the environment does not hold).
Eval(v, env) ==
  LET ts == Tokenize(StripComment(v))
  IN IF ~WellFormedExpr(ts) THEN Raise("SyntaxError")
     ELSE LET first == Operand(ts[1], env)
          IN IF ~first.ok THEN first
             ELSE IF Len(ts) = 1 THEN first
             ELSE Chain(Tail(ts), first.value, env)

\* eval stores the built-ins under __builtins__ in a globals dictionary
\* that has no such entry.
WithBuiltins(env) ==
  IF env.isNone \/ NameBuiltins \in DOMAIN env.d THEN env
  ELSE EnvDict([d \in DOMAIN env.d \cup {NameBuiltins} |->
                  IF d = NameBuiltins THEN ObjVal(NameBuiltins) ELSE env.d[d]])

\* ------------------------------------------------------------ import_fits

VARIABLES
  fileState,   \* what filename names: "ok", "missing" or "undecodable"
  content,     \* the text of the file
  m,           \* the symbol source: "None" or "module"
  pc,          \* the statement import_fits is at
  globalDict,  \* the evaluation environment
  fits,        \* the dictionary of results
  fitFile,     \* the file handle: "unopened", "open" or "closed"
  opens,       \* how many times the file was opened
  fitLines,    \* the lines read
  pos,         \* how many lines the for loop has taken
  line, split, key, val,   \* the locals of the loop body
  result,      \* what the call returned
  exc,         \* the exceptions the call propagated
  log          \* one entry per line taken by the loop

vars == <<fileState, content, m, pc, globalDict, fits, fitFile, opens,
          fitLines, pos, line, split, key, val, result, exc, log>>

\* The part of the state the inputs make.
inputs == <<fileState, content, m>>

NoResult      == [returned |-> FALSE, map |-> EmptyDict]
Returned(map) == [returned |-> TRUE,  map |-> map]

\* A bug for comparison: only the names without a leading underscore.
BuildGlobalDict_PublicOnly(src) ==
  IF src # "None"
  THEN EnvDict([d \in {x \in Dir(src) : x[1] # "_"} |-> GetAttr(src, d)])
  ELSE EnvNone

\* globalDict as lines 17-22 build it from m.
BuildGlobalDict(src) ==
  IF src # "None"
  THEN EnvDict([d \in Dir(src) |-> GetAttr(src, d)])
  ELSE EnvNone

\* split = line.find('=')
SplitOf(l) == Find(l, "=")

\* key = line[0:split-1].strip()
KeyOf(l) == Strip(PySlice(l, 0, SplitOf(l) - 1))

\* val = line[split+1:-1].strip()
ValOf(l) == Strip(PySlice(l, SplitOf(l) + 1, -1))

\* A bug for comparison: a key that is there keeps its first value.
Store_KeepFirst(dict, k, v) ==
  IF k \in DOMAIN dict THEN dict
  ELSE [x \in DOMAIN dict \cup {k} |-> IF x = k THEN v ELSE dict[x]]

\* fits[key] = value
Store(dict, k, v) ==
  [x \in DOMAIN dict \cup {k} |-> IF x = k THEN v ELSE dict[x]]

SkipEntry(i) ==
  [idx |-> i, kind |-> "skip", key |-> <<>>, val |-> <<>>, ok |-> TRUE,
   value |-> NoneVal, exc |-> "none", handle |-> fitFile]

EvalEntry(i, k, v, r) ==
  [idx |-> i, kind |-> "eval", key |-> k, val |-> v, ok |-> r.ok,
   value |-> r.value, exc |-> r.exc, handle |-> fitFile]

Init ==
  /\ fileState \in {"ok", "missing", "undecodable"}
  /\ content \in (IF fileState = "ok" THEN Contents ELSE {<<>>})
  /\ m \in {"None", "module"}
  /\ pc = "env"
  /\ globalDict = EnvNone
  /\ fits = EmptyDict
  /\ fitFile = "unopened"
  /\ opens = 0
  /\ fitLines = <<>>
  /\ pos = 0
  /\ line = <<>>
  /\ split = 0
  /\ key = <<>>
  /\ val = <<>>
  /\ result = NoResult
  /\ exc = <<>>
  /\ log = <<>>

\* Lines 17-25: the environment and the empty dictionary of results.
BuildEnv ==
  /\ pc = "env"
  /\ globalDict' = BuildGlobalDict(m)
  /\ fits' = EmptyDict
  /\ pc' = "open"
  /\ UNCHANGED <<inputs, fitFile, opens, fitLines, pos, line, split, key, val,
                 result, exc, log>>

\* Line 27: open(filename, "r") of a file that can be opened.
OpenOk ==
  /\ pc = "open"
  /\ fileState # "missing"
  /\ fitFile' = "open"
  /\ opens' = opens + 1
  /\ pc' = "read"
  /\ UNCHANGED <<inputs, globalDict, fits, fitLines, pos, line, split, key,
                 val, result, exc, log>>

\* A bug for comparison: a file that is not there reads as an empty one.
OpenRaise_EmptyFile ==
  /\ pc = "open"
  /\ fileState = "missing"
  /\ fitLines' = <<>>
  /\ pc' = "loop"
  /\ UNCHANGED <<inputs, globalDict, fits, fitFile, opens, pos, line, split,
                 key, val, result, exc, log>>

\* Line 27: open raises for a file that is not there or may not be read.
OpenRaise ==
  /\ pc = "open"
  /\ fileState = "missing"
  /\ exc' = Append(exc, "OSError")
  /\ pc' = "raised"
  /\ UNCHANGED <<inputs, globalDict, fits, fitFile, opens, fitLines, pos, line,
                 split, key, val, result, log>>

\* Line 28: readlines() of a file whose bytes decode.
ReadOk ==
  /\ pc = "read"
  /\ fileState = "ok"
  /\ fitLines' = Readlines(content)
  /\ pc' = "close"
  /\ UNCHANGED <<inputs, globalDict, fits, fitFile, opens, pos, line, split,
                 key, val, result, exc, log>>

\* Line 28: readlines() raises on bytes that do not decode; line 29 is
\* not reached.
ReadRaise ==
  /\ pc = "read"
  /\ fileState = "undecodable"
  /\ exc' = Append(exc, "UnicodeDecodeError")
  /\ pc' = "raised"
  /\ UNCHANGED <<inputs, globalDict, fits, fitFile, opens, fitLines, pos, line,
                 split, key, val, result, log>>

\* Line 29: fitFile.close()
Close ==
  /\ pc = "close"
  /\ fitFile' = "closed"
  /\ pc' = "loop"
  /\ UNCHANGED <<inputs, globalDict, fits, opens, fitLines, pos, line, split,
                 key, val, result, exc, log>>

\* Lines 31-32: a line that starts with '#' is passed over.
SkipComment ==
  /\ pc = "loop"
  /\ pos < Len(fitLines)
  /\ StartsWithHash(fitLines[pos + 1])
  /\ line' = fitLines[pos + 1]
  /\ pos' = pos + 1
  /\ log' = Append(log, SkipEntry(pos + 1))
  /\ UNCHANGED <<inputs, pc, globalDict, fits, fitFile, opens, fitLines, split,
                 key, val, result, exc>>

\* Lines 33-37: the line is cut, its expression evaluated and the value
\* stored under its key.
EvalStore ==
  /\ pc = "loop"
  /\ pos < Len(fitLines)
  /\ ~StartsWithHash(fitLines[pos + 1])
  /\ LET l == fitLines[pos + 1]
         r == Eval(ValOf(l), globalDict)
     IN /\ r.ok
        /\ line' = l
        /\ split' = SplitOf(l)
        /\ key' = KeyOf(l)
        /\ val' = ValOf(l)
        /\ globalDict' = WithBuiltins(globalDict)
        /\ fits' = Store(fits, KeyOf(l), r.value)
        /\ log' = Append(log, EvalEntry(pos + 1, KeyOf(l), ValOf(l), r))
  /\ pos' = pos + 1
  /\ UNCHANGED <<inputs, pc, fitFile, opens, fitLines, result, exc>>

\* A bug for comparison: the error is caught and what was stored so far is
\* returned.
EvalRaise_ReturnsPartial ==
  /\ pc = "loop"
  /\ pos < Len(fitLines)
  /\ ~StartsWithHash(fitLines[pos + 1])
  /\ LET l == fitLines[pos + 1]
         r == Eval(ValOf(l), globalDict)
     IN /\ ~r.ok
        /\ line' = l
        /\ split' = SplitOf(l)
        /\ key' = KeyOf(l)
        /\ val' = ValOf(l)
        /\ globalDict' = WithBuiltins(globalDict)
        /\ log' = Append(log, EvalEntry(pos + 1, KeyOf(l), ValOf(l), r))
  /\ pos' = pos + 1
  /\ result' = Returned(fits)
  /\ pc' = "returned"
  /\ UNCHANGED <<inputs, fits, fitFile, opens, fitLines, exc>>

\* Lines 33-37: eval raises; nothing catches it.
EvalRaise ==
  /\ pc = "loop"
  /\ pos < Len(fitLines)
  /\ ~StartsWithHash(fitLines[pos + 1])
  /\ LET l == fitLines[pos + 1]
         r == Eval(ValOf(l), globalDict)
     IN /\ ~r.ok
        /\ line' = l
        /\ split' = SplitOf(l)
        /\ key' = KeyOf(l)
        /\ val' = ValOf(l)
        /\ globalDict' = WithBuiltins(globalDict)
        /\ exc' = Append(exc, r.exc)
        /\ log' = Append(log, EvalEntry(pos + 1, KeyOf(l), ValOf(l), r))
  /\ pos' = pos + 1
  /\ pc' = "raised"
  /\ UNCHANGED <<inputs, fits, fitFile, opens, fitLines, result>>

\* Line 40: return fits
Return ==
  /\ pc = "loop"
  /\ pos = Len(fitLines)
  /\ result' = Returned(fits)
  /\ pc' = "returned"
  /\ UNCHANGED <<inputs, globalDict, fits, fitFile, opens, fitLines, pos, line,
                 split, key, val, exc, log>>

Next ==
  \/ BuildEnv
  \/ OpenOk
  \/ OpenRaise
  \/ ReadOk
  \/ ReadRaise
  \/ Close
  \/ SkipComment
  \/ EvalStore
  \/ EvalRaise
  \/ Return

Spec == Init /\ [][Next]_vars

TypeOK ==
  /\ pc \in {"env", "open", "read", "close", "loop", "returned", "raised"}
  /\ fitFile \in {"unopened", "open", "closed"}
  /\ pos \in 0..Len(fitLines)
  /\ Len(exc) <= 1

\* ------------------------------------------------------------ the claims

\* What the claims speak of, stated on the text itself.
Finished == pc \in {"returned", "raised"}

HasEq(l) == \E i \in 1..Len(l) : l[i] = "="

\* 1-based place of the first '='.
FirstEq(l) == CHOOSE i \in 1..Len(l) : l[i] = "=" /\ \A j \in 1..(i - 1) : l[j] # "="

DropLast(s) == IF Len(s) = 0 THEN s ELSE SubSeq(s, 1, Len(s) - 1)

TextBefore(l) == SubSeq(l, 1, FirstEq(l) - 1)

TextAfter(l) == SubSeq(l, FirstEq(l) + 1, Len(l))

\* The lines of the file that do not start with '#'.
NonComment == {i \in 1..Len(fitLines) : fitLines[i][1] # "#"}

RECURSIVE Flatten(_)
Flatten(ls) == IF Len(ls) = 0 THEN <<>> ELSE Head(ls) \o Flatten(Tail(ls))

\* fitLines are the lines of content: cut after each end of line.
LinesOfContent ==
  /\ Flatten(fitLines) = content
  /\ \A i \in 1..Len(fitLines) :
       /\ Len(fitLines[i]) > 0
       /\ \A j \in 1..(Len(fitLines[i]) - 1) : fitLines[i][j] # "\n"
       /\ i < Len(fitLines) => fitLines[i][Len(fitLines[i])] = "\n"

\* The last non-comment line that yields key k.
LastWith(k) ==
  CHOOSE i \in NonComment :
    /\ KeyOf(fitLines[i]) = k
    /\ \A j \in NonComment : KeyOf(fitLines[j]) = k => j <= i

\* C1: when import_fits returns, the mapping has exactly one entry per
\* distinct key of the non-comment lines of the file, and each key's value
\* is the evaluation of the expression of the last non-comment line with
\* that key.
C1_LastOccurrenceWins ==
  pc = "returned" =>
    /\ result.returned
    /\ LinesOfContent
    /\ DOMAIN result.map = {KeyOf(fitLines[i]) : i \in NonComment}
    /\ \A k \in DOMAIN result.map :
         result.map[k] = Eval(ValOf(fitLines[LastWith(k)]), globalDict).value

\* A file in which two non-comment lines have the same key and different
\* values, returned with the later value.
C1_Witness ==
  /\ pc = "returned"
  /\ \E i, j \in NonComment :
       /\ i < j
       /\ KeyOf(fitLines[i]) = KeyOf(fitLines[j])
       /\ log[i].value # log[j].value
       /\ result.map[KeyOf(fitLines[i])] = log[j].value

\* C2: for every non-comment line with an '=' anywhere, the key is the
\* text before the first '=' without its last character, trimmed, and the
\* expression is the text after the first '=' without the line's last
\* character, trimmed.
C2_KeyAndExpression ==
  \A n \in 1..Len(log) :
    (log[n].kind = "eval" /\ HasEq(fitLines[log[n].idx])) =>
      /\ log[n].key = Strip(DropLast(TextBefore(fitLines[log[n].idx])))
      /\ log[n].val = Strip(DropLast(TextAfter(fitLines[log[n].idx])))

\* C3: a non-comment line without '=' makes the call fail (MalformedLine,
\* whatever exception stands for it): the call does not return, and no
\* entry comes from the line.
C3_MalformedLine ==
  \A i \in NonComment :
    ~HasEq(fitLines[i]) =>
      /\ pc # "returned"
      /\ i <= Len(log) => (~log[i].ok /\ pc = "raised")

\* The names an expression refers to.
NamesIn(v) ==
  LET ts == Tokenize(StripComment(v))
  IN {ts[i].text : i \in {j \in 1..Len(ts) : ts[j].t = "name"}}

\* C4: with m None the environment holds no symbol: an expression that
\* refers to a name fails with NameError (UnresolvedSymbol), and only
\* expressions without names evaluate.
C4_NoSymbols ==
  m = "None" =>
    \A n \in 1..Len(log) :
      (log[n].kind = "eval" /\ WellFormedExpr(Tokenize(StripComment(log[n].val)))
         /\ NamesIn(log[n].val) # {}) =>
        (~log[n].ok /\ log[n].exc = "NameError")

\* A line without its end-of-line character.
Body(l) == IF Len(l) > 0 /\ l[Len(l)] = "\n" THEN DropLast(l) ELSE l

IsIdentifier(s) ==
  /\ Len(s) > 0
  /\ s[1] \in IdentChars \ Digits
  /\ \A i \in 1..Len(s) : s[i] \in IdentChars

\* A line `name = expr`.
NameExprForm(l) ==
  LET b == Body(l)
  IN /\ HasEq(b)
     /\ FirstEq(b) >= 3
     /\ FirstEq(b) + 2 <= Len(b)
     /\ b[FirstEq(b) - 1] = " "
     /\ b[FirstEq(b) + 1] = " "
     /\ IsIdentifier(SubSeq(b, 1, FirstEq(b) - 2))
     /\ Strip(SubSeq(b, FirstEq(b) + 2, Len(b))) # <<>>

NameOf(l) == SubSeq(Body(l), 1, FirstEq(Body(l)) - 2)

ExprOf(l) == Strip(SubSeq(Body(l), FirstEq(Body(l)) + 2, Len(Body(l))))

Outcome(e) == [ok |-> e.ok, value |-> e.value, exc |-> e.exc]

\* C5: a line `name = expr`, terminated or not, is evaluated as expr, and
\* the returned entry of name is the value of expr (of the last such line
\* for the name).
C5_NameExprLine ==
  \A i \in NonComment :
    NameExprForm(fitLines[i]) =>
      /\ i <= Len(log) =>
           /\ log[i].key = NameOf(fitLines[i])
           /\ Outcome(log[i]) = Eval(ExprOf(fitLines[i]), globalDict)
      /\ (pc = "returned"
            /\ \A j \in NonComment : j > i => KeyOf(fitLines[j]) # NameOf(fitLines[i])) =>
           /\ NameOf(fitLines[i]) \in DOMAIN result.map
           /\ result.map[NameOf(fitLines[i])] =
                Eval(ExprOf(fitLines[i]), globalDict).value

\* C6: a line is passed over exactly when its first character is '#'; a
\* passed line adds no key and raises nothing, so a file of such lines only
\* (or an empty file) gives the empty mapping.
C6_CommentIffHash ==
  /\ \A n \in 1..Len(log) :
       /\ log[n].idx = n
       /\ (log[n].kind = "skip") <=> (fitLines[n][1] = "#")
  /\ (Len(log) > 0 /\ \A n \in 1..Len(log) : fitLines[n][1] = "#") =>
       (fits = EmptyDict /\ exc = <<>> /\ pc # "raised")
  /\ (pc = "returned" /\ NonComment = {}) => result.map = EmptyDict

\* A file of two or more comment lines, returned as the empty mapping.
C6_Witness ==
  /\ pc = "returned"
  /\ Len(fitLines) >= 2
  /\ NonComment = {}
  /\ Len(log) = Len(fitLines)
  /\ result = Returned(EmptyDict)

\* C7: an error ends the call with exactly one propagated error, no
\* mapping is returned, not even the entries stored before, and no later
\* line is evaluated.
C7_AllOrNothing ==
  /\ Len(exc) <= 1
  /\ (Len(exc) = 1) <=> (pc = "raised")
  /\ pc = "raised" => result = NoResult
  /\ result.returned => (pc = "returned" /\ exc = <<>>)
  /\ \A n \in 1..Len(log) : ~log[n].ok => (n = Len(log) /\ pc = "raised")

\* A call that fails at a line after an entry was stored and before the
\* last line of the file.
C7_Witness ==
  /\ pc = "raised"
  /\ fits # EmptyDict
  /\ Len(log) < Len(fitLines)
  /\ result = NoResult

\* The attributes of the symbol source that are public.
IsPublic(nm) == nm[1] # "_"

C9_MissingFile ==
  fileState = "missing" =>
    /\ pc \in {"env", "open", "raised"}
    /\ pc = "raised" => exc = <<"OSError">>
    /\ log = <<>>
    /\ fitFile = "unopened"
    /\ result = NoResult

\* The call on a missing file, failed.
C9_Witness ==
  /\ fileState = "missing"
  /\ pc = "raised"
  /\ exc = <<"OSError">>

\* C10: the file is opened once, read whole and closed before the first
\* evaluation; no handle is open during an evaluation or once the call has
\* ended, normally or with an error; the lines are evaluated one at a time
\* in file order.
C10_HandleReleased ==
  /\ opens <= 1
  /\ \A n \in 1..Len(log) :
       /\ log[n].idx = n
       /\ log[n].handle = "closed"
  /\ Len(log) > 0 => (opens = 1 /\ LinesOfContent)
  /\ Finished => fitFile # "open"

====
